---- MODULE Spec2Model ----
(***************************************************************************)
(* Model of the rrulex recurrence engine (crates/rrulex-core/src/lib.rs)   *)
(* and of the expand front end (crates/rrulex-cli/src/main.rs).            *)
(*                                                                         *)
(* Instants are whole UNIX seconds, written as small naturals; DTSTART is  *)
(* instant 0 and MaxT is the last instant a spec or a query names.  A      *)
(* validated rule is the arithmetic progression it generates from DTSTART  *)
(* (its step), cut by COUNT or UNTIL; a rule with neither goes on past     *)
(* MaxT.  An Option<T> is the set {} (None) or {x} (Some(x)).  Indexes     *)
(* reported to callers are zero-based, as in the code; sequences of the    *)
(* model are one-based.                                                    *)
(***************************************************************************)
EXTENDS Integers, Sequences, FiniteSets, TLC

\* ---------------------------------------------------------------- bounds
\* MaxT: the last instant a spec or a query names (DTSTART is instant 0)
MaxT == 2
\* MaxLimit: the largest hard_limit tried
MaxLimit == 2
\* MaxParts: the most rules and dates one spec holds, all four lists together
MaxParts == 3
\* MaxBadParts: the same, for a spec with an unknown zone or an invalid rule
MaxBadParts == 1

\* The rule shapes tried: the progression's step and the COUNT / UNTIL values
RuleSteps == {1, 2}
RuleCounts == {2}
RuleUntils == {1}

\* u16::MAX, the largest limit RRuleSet::all accepts (u16::try_from)
U16Max == 65535

Instants == 0..MaxT

\* ---------------------------------------------------------------- helpers
Some(x) == {x}
None == {}
Unwrap(o) == CHOOSE x \in o : TRUE

SetMax(S) == CHOOSE x \in S : \A y \in S : y <= x

Repeat(x, n) == [i \in 1..n |-> x]

\* ---------------------------------------------------------------- rules
\* A raw rule string that fails RRule::parse or validate(dtstart).
BadRule == [ok |-> FALSE, step |-> 1, count |-> None, until |-> None]

\* Raw rule strings that parse and validate: FREQ/INTERVAL give the step,
\* COUNT and UNTIL are optional and exclusive of each other.
GoodRules ==
    {[ok |-> TRUE, step |-> s, count |-> c, until |-> None] :
        s \in RuleSteps, c \in {None} \cup {Some(n) : n \in RuleCounts}} \cup
    {[ok |-> TRUE, step |-> s, count |-> None, until |-> Some(u)] :
        s \in RuleSteps, u \in RuleUntils}

Rules == GoodRules \cup {BadRule}

\* The largest step of a rule; every other step divides it
MaxStep == SetMax(RuleSteps)

\* The instant up to which the rule iterators are followed.  Explicit dates,
\* COUNT and UNTIL all end by MaxT; past it a set repeats with period
\* MaxStep or has ended, so the first MaxLimit + 1 dates from any instant
\* up to MaxT lie before Horizon - MaxStep.
Horizon == MaxT + MaxStep * (MaxLimit + 2)

\* One validated rule generates instant t from dtstart: t is a step-th
\* instant from dtstart on, among the first COUNT of them, not after UNTIL
\* (inclusive).
RuleGenerates(dtstart, rule, t) ==
    /\ t >= dtstart
    /\ (t - dtstart) % rule.step = 0
    /\ \A c \in rule.count : (t - dtstart) \div rule.step < c
    /\ \A u \in rule.until : t <= u

\* ---------------------------------------------------------------- time zones
GoodTz == "Europe/Berlin"
BadTz == "Mars/Olympus"

\* Two more zones the parsers meet: UTC, and a zone whose clocks change at
\* midnight
UtcTz == "UTC"
DstTz == "America/Havana"
KnownZones == {GoodTz, UtcTz, DstTz}

\* parse_timezone: Some(zone) for an IANA name, None (InvalidTimezone) otherwise
parse_timezone(value) == IF value \in KnownZones THEN Some(value) ELSE None

\* UTC offset of the zone, in the model's time unit
TzOffset(tz) == IF tz = GoodTz THEN 1 ELSE 0

\* ---------------------------------------------------------------- inputs
\* RecurrenceSpec values: DTSTART is instant 0; at least one of rrules and
\* rdates is non-empty (parse_ics_spec and build_spec both require it).
SeqsUpTo(S, n) == UNION {[1..k -> S] : k \in 0..n}

Specs ==
    {[dtstart |-> 0, tz |-> z, rrules |-> rr, rdates |-> rd,
      exrules |-> xr, exdates |-> xd] :
        z \in {GoodTz, BadTz},
        rr \in SeqsUpTo(Rules, 2), rd \in SeqsUpTo(Instants, 2),
        xr \in SeqsUpTo(Rules, 1), xd \in SeqsUpTo(Instants, 1)}

Parts(s) == Len(s.rrules) + Len(s.rdates) + Len(s.exrules) + Len(s.exdates)

\* A spec expand and explain accept: known zone, every rule valid
ValidSpec(s) ==
    /\ s.tz = GoodTz
    /\ \A i \in DOMAIN s.rrules : s.rrules[i].ok
    /\ \A i \in DOMAIN s.exrules : s.exrules[i].ok

SpecInputs ==
    {s \in Specs :
        /\ s.rrules # <<>> \/ s.rdates # <<>>
        /\ Parts(s) <= IF ValidSpec(s) THEN MaxParts ELSE MaxBadParts}

\* ExpandQuery values
Queries ==
    {[kind |-> "Between", start |-> a, end |-> b] :
        a \in Instants, b \in Instants} \cup
    {[kind |-> "After", start |-> a, count |-> c] :
        a \in Instants, c \in 0..(MaxLimit + 1)} \cup
    {[kind |-> "Unbounded"]}

\* Between queries as the front end builds them: start <= end
QueryInputs == {q \in Queries : q.kind = "Between" => q.start <= q.end}

\* hard_limit values: the small ones, and the three around the largest
\* value whose successor still fits in 16 bits
LimitInputs == (0..MaxLimit) \cup {U16Max - 1, U16Max, U16Max + 1}

\* ---------------------------------------------------------------- RRuleSet
\* RRuleSet::new(dtstart) with its builder calls applied: validated rules,
\* explicit dates, and the optional after/before bounds.
RRuleSet(dtstart, rrules, exrules, rdates, exdates) ==
    [dt_start |-> dtstart, rrule |-> rrules, exrule |-> exrules,
     rdate |-> rdates, exdate |-> exdates, after |-> None, before |-> None]

SetAfter(set, dt) == [set EXCEPT !.after = Some(dt)]
SetBefore(set, dt) == [set EXCEPT !.before = Some(dt)]

\* The iterator drops a generated date whose timestamp is an EXDATE or is
\* generated by an EXRULE.
IsDateExcluded(set, t) ==
    \/ \E j \in DOMAIN set.exdate : set.exdate[j] = t
    \/ \E i \in DOMAIN set.exrule : RuleGenerates(set.dt_start, set.exrule[i], t)

\* How many times the iterator yields instant t: once per RRULE generating
\* it and once per RDATE entry equal to it (the merge does not deduplicate).
Yields(set, t) ==
    IF IsDateExcluded(set, t) THEN 0
    ELSE Cardinality({i \in DOMAIN set.rrule :
                         RuleGenerates(set.dt_start, set.rrule[i], t)})
         + Cardinality({j \in DOMAIN set.rdate : set.rdate[j] = t})

Min(a, b) == IF a <= b THEN a ELSE b

\* is_in_range with inclusive = true, as RRuleSet::all passes it
IsInRange(set, t) ==
    /\ \A a \in set.after : a <= t
    /\ \A b \in set.before : t <= b

\* The first n dates inside the range that the set iterator yields from
\* instant t on, in ascending order.  The iterator ends once it is past the
\* `before` bound; it is followed up to Horizon.
RECURSIVE IterFrom(_, _, _)
IterFrom(set, t, n) ==
    IF n = 0 \/ t > Horizon \/ (\E b \in set.before : t > b) THEN <<>>
    ELSE LET k == IF IsInRange(set, t) THEN Min(n, Yields(set, t)) ELSE 0
         IN  Repeat(t, k) \o IterFrom(set, t + 1, n - k)

\* The first instant the iterator can yield inside the range
IterStart(set) ==
    IF \E a \in set.after : a > set.dt_start THEN Unwrap(set.after)
    ELSE set.dt_start

\* The iterator of one RRULE runs dry: the rule has neither COUNT nor UNTIL
\* and every date it generates is excluded.  Its candidates are followed up
\* to Horizon; explicit dates, COUNT and UNTIL all end by MaxT, so a rule
\* excluded that far is excluded by an EXRULE that never ends.
RuleRunsDry(set, rule) ==
    /\ rule.count = None
    /\ rule.until = None
    /\ \A t \in set.dt_start..Horizon :
          RuleGenerates(set.dt_start, rule, t) => IsDateExcluded(set, t)

\* The set iterator of RRuleSet::all gives up when an RRULE hands it 100000
\* excluded candidates in a row.  It asks every RRULE for its next date
\* before it yields its first one, so it then ends without a date, RDATEs
\* and the dates of the other RRULEs included.
IterLimited(set) ==
    \E i \in DOMAIN set.rrule : RuleRunsDry(set, set.rrule[i])

\* RRuleSet::all(limit).dates: the first `limit` yielded dates inside the
\* range, none when the iterator gave up
SetAll(set, limit) ==
    IF IterLimited(set) THEN <<>> ELSE IterFrom(set, IterStart(set), limit)

\* The set yields dates past Horizon: it has no `before` bound and yields
\* in the last period before Horizon
SetGoesOn(set) ==
    /\ ~IterLimited(set)
    /\ set.before = None
    /\ \E t \in (Horizon - MaxStep + 1)..Horizon : Yields(set, t) > 0

\* SetAll(set, limit) is what RRuleSet::all(limit) returns: the dates asked
\* for are few enough to lie before Horizon, or the set ends before it
AllWithinHorizon(set, limit) ==
    IF limit <= MaxLimit + 1 THEN TRUE ELSE ~SetGoesOn(set)

\* ---------------------------------------------------------------- engine
Ok(v) == [err |-> "Ok", val |-> v]
Err(e) == [err |-> e, val |-> <<>>]

\* A conversion that lets one value too many through
TryU16OffByOne(n) == IF n <= U16Max + 1 THEN Some(n) ELSE None

\* u16::try_from(n): Some(n) when n fits in 16 bits
TryU16(n) == IF n <= U16Max THEN Some(n) ELSE None

\* The Between arm's breach test on the hard_limit + 1 dates requested
BetweenOverLimit(dates, hard_limit) == Len(dates) > hard_limit

\* Count guards that forget the comparison with hard_limit
AfterCountCheckNoLimit(count, hard_limit) ==
    IF count = 0 THEN "InvalidCount" ELSE "Ok"

\* The After arm's count guards, in the code's order; "Ok" when both pass
AfterCountCheck(count, hard_limit) ==
    IF count = 0 THEN "InvalidCount"
    ELSE IF count > hard_limit THEN "LimitExceeded"
    ELSE "Ok"

\* collect_dates(set, query, hard_limit).  hard_limit stays far below
\* usize::MAX here, so checked_add(1) always succeeds.
collect_dates(set, query, hard_limit) ==
    LET limit_plus_one == hard_limit + 1 IN
    IF TryU16(limit_plus_one) = None THEN Err("LimitExceeded")
    ELSE
    LET limit_u16 == Unwrap(TryU16(limit_plus_one)) IN
    CASE query.kind = "Between" ->
            LET dates == SetAll(SetBefore(SetAfter(set, query.start), query.end),
                                limit_u16)
            IN  IF BetweenOverLimit(dates, hard_limit) THEN Err("LimitExceeded")
                ELSE Ok(dates)
      [] query.kind = "After" ->
            IF AfterCountCheck(query.count, hard_limit) # "Ok"
            THEN Err(AfterCountCheck(query.count, hard_limit))
            ELSE IF TryU16(query.count) = None THEN Err("LimitExceeded")
            ELSE Ok(SetAll(SetAfter(set, query.start), Unwrap(TryU16(query.count))))
      [] query.kind = "Unbounded" ->
            IF TryU16(hard_limit) = None THEN Err("LimitExceeded")
            ELSE Ok(SetAll(set, Unwrap(TryU16(hard_limit))))

\* parse_validated_rules: fails on the first rule that does not parse or
\* validate against DTSTART
parse_validated_rules(spec) ==
    IF \E i \in DOMAIN spec.rrules : ~spec.rrules[i].ok THEN Err("InvalidRrule")
    ELSE IF \E i \in DOMAIN spec.exrules : ~spec.exrules[i].ok THEN Err("InvalidRrule")
    ELSE Ok(<<spec.rrules, spec.exrules>>)

\* matches_rule_at: a set holding only this rule as RRULE, asked for one
\* date inside [at, at]
matches_rule_at(dtstart, rule, at) ==
    SetAll(SetBefore(SetAfter(RRuleSet(dtstart, <<rule>>, <<>>, <<>>, <<>>), at), at), 1)
        # <<>>

\* matches_exrule_at: a set holding only this rule as EXRULE, asked for one
\* date inside [at, at]
matches_exrule_at(dtstart, rule, at) ==
    SetAll(SetBefore(SetAfter(RRuleSet(dtstart, <<>>, <<rule>>, <<>>, <<>>), at), at), 1)
        # <<>>

\* rdate_index: HashMap collected from (timestamp, position); a later
\* position overwrites an earlier one with the same timestamp.  Zero-based.
rdate_index(spec, ts) ==
    LET hits == {j \in DOMAIN spec.rdates : spec.rdates[j] = ts}
    IN  IF hits = {} THEN None ELSE Some(SetMax(hits) - 1)

\* The last rule, in order, that alone produces `at` (zero-based), if any
LastMatchingRule(dtstart, rrules, at) ==
    LET hits == {i \in DOMAIN rrules : matches_rule_at(dtstart, rrules[i], at)}
    IN  IF hits = {} THEN None ELSE Some(SetMax(hits) - 1)

\* The first rule, in order, that alone produces `at` (zero-based), if any
FirstMatchingRule(dtstart, rrules, at) ==
    LET hits == {i \in DOMAIN rrules : matches_rule_at(dtstart, rrules[i], at)}
    IN  IF hits = {} THEN None ELSE Some((CHOOSE i \in hits : \A k \in hits : i <= k) - 1)

\* Attribution of one produced date in expand: <<source, rule_index>>
Classify(spec, rrules, ts) ==
    IF rdate_index(spec, ts) # None
    THEN <<"RDATE", Unwrap(rdate_index(spec, ts))>>
    ELSE LET found == FirstMatchingRule(spec.dtstart, rrules, ts)
         IN  <<"RRULE", IF found = None THEN 0 ELSE Unwrap(found)>>

\* The Occurrence pushed for one produced date.  The two renderings are
\* the local wall-clock second and the UTC second.
MakeOccurrence(spec, rrules, dt) ==
    LET class == Classify(spec, rrules, dt)
    IN  [start_local |-> dt + TzOffset(spec.tz),
         start_utc   |-> dt,
         tz          |-> spec.tz,
         source      |-> class[1],
         rule_index  |-> class[2]]

\* The comparator turned round: a sorts strictly before b when it is later
OccLessDescending(a, b) ==
    \/ a.start_utc > b.start_utc
    \/ /\ a.start_utc = b.start_utc
       /\ \/ a.start_local > b.start_local
          \/ a.start_local = b.start_local /\ a.rule_index > b.rule_index

\* The comparator of out.sort_by: a sorts strictly before b
OccLess(a, b) ==
    \/ a.start_utc < b.start_utc
    \/ /\ a.start_utc = b.start_utc
       /\ \/ a.start_local < b.start_local
          \/ a.start_local = b.start_local /\ a.rule_index < b.rule_index

\* Stable insertion of x into the sorted sequence s
RECURSIVE InsertSorted(_, _)
InsertSorted(s, x) ==
    IF s = <<>> THEN <<x>>
    ELSE IF OccLess(x, s[Len(s)]) THEN Append(InsertSorted(SubSeq(s, 1, Len(s) - 1), x), s[Len(s)])
    ELSE Append(s, x)

\* out.sort_by(...): a stable sort
RECURSIVE SortOccurrences(_)
SortOccurrences(s) ==
    IF s = <<>> THEN <<>>
    ELSE InsertSorted(SortOccurrences(SubSeq(s, 1, Len(s) - 1)), s[Len(s)])

\* A reordering of expand's opening checks: the zone resolved first
expand_guard_tz_first(spec, hard_limit) ==
    IF parse_timezone(spec.tz) = None THEN "InvalidTimezone"
    ELSE IF hard_limit = 0 THEN "InvalidLimit"
    ELSE parse_validated_rules(spec).err

\* The opening checks of expand, in the code's order: the limit, the zone,
\* the rules.  "Ok" when all pass.
expand_guard(spec, hard_limit) ==
    IF hard_limit = 0 THEN "InvalidLimit"
    ELSE IF parse_timezone(spec.tz) = None THEN "InvalidTimezone"
    ELSE parse_validated_rules(spec).err

\* expand(spec, query, hard_limit)
expand(spec, query, hard_limit) ==
    IF expand_guard(spec, hard_limit) # "Ok" THEN Err(expand_guard(spec, hard_limit))
    ELSE
    LET rrules == parse_validated_rules(spec).val[1]
        exrules == parse_validated_rules(spec).val[2]
        set == RRuleSet(spec.dtstart, rrules, exrules, spec.rdates, spec.exdates)
        dates == collect_dates(set, query, hard_limit)
    IN  IF dates.err # "Ok" THEN Err(dates.err)
        ELSE Ok(SortOccurrences(
                 [k \in DOMAIN dates.val |-> MakeOccurrence(spec, rrules, dates.val[k])]))

\* ---------------------------------------------------------------- explain
\* An attribution that probes the RRULEs before looking at the RDATEs
ExplainGeneratedRuleFirst(spec, rrules, at) ==
    LET found == FirstMatchingRule(spec.dtstart, rrules, at)
    IN  IF found # None THEN <<Some("RRULE"), found>>
        ELSE IF rdate_index(spec, at) # None
        THEN <<Some("RDATE"), rdate_index(spec, at)>>
        ELSE <<None, None>>

\* generated_by / generated_rule_index of explain: an RDATE with the same
\* timestamp first, else the first RRULE whose single-rule probe matches
ExplainGenerated(spec, rrules, at) ==
    IF rdate_index(spec, at) # None
    THEN <<Some("RDATE"), rdate_index(spec, at)>>
    ELSE LET found == FirstMatchingRule(spec.dtstart, rrules, at)
         IN  IF found = None THEN <<None, None>> ELSE <<Some("RRULE"), found>>

exdate_hit(spec, at) == \E j \in DOMAIN spec.exdates : spec.exdates[j] = at

exrule_hit(spec, exrules, at) ==
    \E i \in DOMAIN exrules : matches_exrule_at(spec.dtstart, exrules[i], at)

ExcludedBy(exdateHit, exruleHit) ==
    IF exdateHit THEN Some("EXDATE")
    ELSE IF exruleHit THEN Some("EXRULE")
    ELSE None

\* An inclusion test that ignores the exclusion
IncludedIgnoringExclusion(generated_by, excluded_by) == generated_by # None

Included(generated_by, excluded_by) == generated_by # None /\ excluded_by = None

ExplainNotes(generated_by, excluded_by) ==
    (IF generated_by = Some("RRULE") THEN <<"Generated by RRULE">>
     ELSE IF generated_by = Some("RDATE") THEN <<"Generated by RDATE">>
     ELSE <<"Not generated by RRULE/RDATE">>)
    \o (IF excluded_by = None THEN <<>>
        ELSE IF excluded_by = Some("EXDATE") THEN <<"Excluded by EXDATE">>
        ELSE <<"Excluded by EXRULE">>)

\* explain(spec, at)
explain(spec, at) ==
    IF parse_timezone(spec.tz) = None THEN Err("InvalidTimezone")
    ELSE IF parse_validated_rules(spec).err # "Ok" THEN Err("InvalidRrule")
    ELSE
    LET rrules == parse_validated_rules(spec).val[1]
        exrules == parse_validated_rules(spec).val[2]
        gen == ExplainGenerated(spec, rrules, at)
        excluded_by == ExcludedBy(exdate_hit(spec, at), exrule_hit(spec, exrules, at))
    IN  Ok([at |-> at + TzOffset(spec.tz),
            included |-> Included(gen[1], excluded_by),
            generated_by |-> gen[1],
            generated_rule_index |-> gen[2],
            excluded_by |-> excluded_by,
            notes |-> ExplainNotes(gen[1], excluded_by)])

\* ---------------------------------------------------------------- strings
\* A rule string is the sequence of its characters.
LowerAlphabet ==
    <<"a", "b", "c", "d", "e", "f", "g", "h", "i", "j", "k", "l", "m", "n", "o", "p", "q", "r", "s", "t", "u", "v", "w", "x", "y", "z">>
UpperAlphabet ==
    <<"A", "B", "C", "D", "E", "F", "G", "H", "I", "J", "K", "L", "M", "N", "O", "P", "Q", "R", "S", "T", "U", "V", "W", "X", "Y", "Z">>
AsciiDigits == {"0", "1", "2", "3", "4", "5", "6", "7", "8", "9"}

\* char::is_ascii_digit
is_ascii_digit(c) == c \in AsciiDigits

\* A character of a text is written as itself when it is a printable ASCII
\* character, a tab, a line feed, a form feed or a carriage return, and by
\* its code point otherwise ("U+2003").
\* The characters with the White_Space property: U+0009 to U+000D, space,
\* U+0085, U+00A0, U+1680, U+2000 to U+200A, U+2028, U+2029, U+202F, U+205F
\* and U+3000.
WhiteSpace ==
    {"\t", "\n", "U+000B", "\f", "\r", " ", "U+0085", "U+00A0", "U+1680",
     "U+2000", "U+2001", "U+2002", "U+2003", "U+2004", "U+2005", "U+2006",
     "U+2007", "U+2008", "U+2009", "U+200A", "U+2028", "U+2029", "U+202F",
     "U+205F", "U+3000"}

\* char::is_whitespace, which str::trim strips by
is_whitespace(c) == c \in WhiteSpace

\* str::to_ascii_uppercase left out: every key keeps the case it was written in
keep_case(str) == str

\* str::to_ascii_uppercase
to_ascii_uppercase(str) ==
    [i \in DOMAIN str |->
        IF \E k \in DOMAIN LowerAlphabet : LowerAlphabet[k] = str[i]
        THEN UpperAlphabet[CHOOSE k \in DOMAIN LowerAlphabet : LowerAlphabet[k] = str[i]]
        ELSE str[i]]

RECURSIVE trim_start(_)
trim_start(str) ==
    IF str # <<>> /\ is_whitespace(Head(str)) THEN trim_start(Tail(str)) ELSE str

RECURSIVE trim_end(_)
trim_end(str) ==
    IF str # <<>> /\ is_whitespace(str[Len(str)])
    THEN trim_end(SubSeq(str, 1, Len(str) - 1))
    ELSE str

\* str::trim
trim(str) == trim_end(trim_start(str))

\* str::contains(char)
contains(str, c) == \E i \in DOMAIN str : str[i] = c

\* str::ends_with(char)
ends_with(str, c) == str # <<>> /\ str[Len(str)] = c

\* str::find(char): the first position of c, 0 when c does not occur
find(str, c) ==
    IF contains(str, c)
    THEN CHOOSE i \in DOMAIN str : str[i] = c /\ \A k \in 1..(i - 1) : str[k] # c
    ELSE 0

\* str::split(char): the pieces between the separators, in order
RECURSIVE split(_, _)
split(str, c) ==
    LET at == find(str, c)
    IN  IF at = 0 THEN <<str>>
        ELSE <<SubSeq(str, 1, at - 1)>> \o split(SubSeq(str, at + 1, Len(str)), c)

\* str::split_once(char): the text before and after the first separator
split_once(str, c) ==
    LET at == find(str, c)
    IN  IF at = 0 THEN None
        ELSE Some(<<SubSeq(str, 1, at - 1), SubSeq(str, at + 1, Len(str))>>)

\* The field names the code looks up
KeyCOUNT == <<"C", "O", "U", "N", "T">>
KeyUNTIL == <<"U", "N", "T", "I", "L">>
KeyBYSETPOS == <<"B", "Y", "S", "E", "T", "P", "O", "S">>
ContextKeys ==
    {<<"B", "Y", "M", "O", "N", "T", "H">>,
     <<"B", "Y", "W", "E", "E", "K", "N", "O">>,
     <<"B", "Y", "Y", "E", "A", "R", "D", "A", "Y">>,
     <<"B", "Y", "M", "O", "N", "T", "H", "D", "A", "Y">>,
     <<"B", "Y", "D", "A", "Y">>,
     <<"B", "Y", "H", "O", "U", "R">>,
     <<"B", "Y", "M", "I", "N", "U", "T", "E">>,
     <<"B", "Y", "S", "E", "C", "O", "N", "D">>}

\* The key=value pieces of a rule string: <<key, value>> for a piece with
\* an '=', None for a piece without
RulePairs(text) ==
    LET pieces == split(text, ";")
    IN  [i \in DOMAIN pieces |-> split_once(pieces[i], "=")]

\* parse_rule_fields: the rule's fields as a map from upper-cased, trimmed
\* key to trimmed value.  Collecting into a HashMap keeps, for a key that
\* occurs more than once, the value of its last occurrence.  A rule of the
\* engine model, which stands for a validated rule string, has the fields
\* its record says.
parse_rule_fields(rule) ==
    IF "text" \in DOMAIN rule
    THEN LET pairs == RulePairs(rule.text)
             hits == {i \in DOMAIN pairs : pairs[i] # None}
             key(i) == to_ascii_uppercase(trim(Unwrap(pairs[i])[1]))
             keys == {key(i) : i \in hits}
         IN  [k \in keys |->
                 trim(Unwrap(pairs[SetMax({i \in hits : key(i) = k})])[2])]
    ELSE [k \in {KeyCOUNT : c \in rule.count} \cup {KeyUNTIL : u \in rule.until} |->
             IF k = KeyCOUNT THEN rule.count ELSE rule.until]

\* ---------------------------------------------------------------- front end
\* rule_has_count_or_until: the raw rule carries a COUNT or an UNTIL field
rule_has_count_or_until(rule) ==
    LET fields == parse_rule_fields(rule)
    IN  KeyCOUNT \in DOMAIN fields \/ KeyUNTIL \in DOMAIN fields

\* The same test run over the RRULEs and the EXRULEs alike, as lint's loop runs
is_potentially_unbounded_any_rule(spec) ==
    \E i \in DOMAIN (spec.rrules \o spec.exrules) :
        ~rule_has_count_or_until((spec.rrules \o spec.exrules)[i])

is_potentially_unbounded(spec) ==
    \E i \in DOMAIN spec.rrules : ~rule_has_count_or_until(spec.rrules[i])

\* ---------------------------------------------------------------- lint
\* The findings lint can push
E001DateStart ==
    [code |-> "E001", message |-> "UNTIL value type must match DTSTART",
     details |-> Some("DTSTART is DATE but UNTIL is DATE-TIME. Use UNTIL=YYYYMMDD.")]
E001DateTimeStart ==
    [code |-> "E001", message |-> "UNTIL value type must match DTSTART",
     details |-> Some("DTSTART is DATE-TIME but UNTIL is DATE. Use UNTIL=YYYYMMDDTHHMMSS(Z).")]
W001 ==
    [code |-> "W001", message |-> "UNTIL appears as local/floating time",
     details |-> Some("Prefer UNTIL with 'Z' (UTC) to avoid timezone ambiguity across systems.")]
W002 ==
    [code |-> "W002", message |-> "Potentially unbounded rule",
     details |-> Some("No COUNT/UNTIL and no --between/--limit context was provided.")]
W003 ==
    [code |-> "W003", message |-> "BYSETPOS without BYxxx context",
     details |-> Some("BYSETPOS is typically only meaningful with BYDAY/BYMONTHDAY/etc.")]

\* The length of a DATE value, YYYYMMDD
DateLen == 8

\* A looser test for a DATE: eight characters of any kind
until_is_date_any_chars(until) == Len(until) = DateLen

\* until_is_date: eight characters, all of them digits
until_is_date(until) ==
    Len(until) = DateLen /\ \A i \in DOMAIN until : is_ascii_digit(until[i])

\* until_is_datetime: the value holds a 'T'
until_is_datetime(until) == contains(until, "T")

\* The W002 test without its last conjunct: --limit gives no context
w002_applies_ignoring_limit(has_count, has_until, has_between, has_limit) ==
    ~has_count /\ ~has_until /\ ~has_between

\* The test guarding W002
w002_applies(has_count, has_until, has_between, has_limit) ==
    ~has_count /\ ~has_until /\ ~has_between /\ ~has_limit

\* has_context: some BYxxx key other than BYSETPOS is among the fields
has_context(fields) == \E key \in ContextKeys : key \in DOMAIN fields

\* One turn of lint's loop: the errors and the warnings pushed for one rule
lint_rule(spec, rule, has_between, has_limit) ==
    LET fields == parse_rule_fields(rule)
        has_count == KeyCOUNT \in DOMAIN fields
        has_until == KeyUNTIL \in DOMAIN fields
        until == IF has_until THEN fields[KeyUNTIL] ELSE <<>>
    IN  [errors |->
            (IF has_until /\ spec.dtstart_type = "DATE" /\ until_is_datetime(until)
             THEN <<E001DateStart>> ELSE <<>>)
            \o (IF has_until /\ spec.dtstart_type = "DATE_TIME" /\ until_is_date(until)
                THEN <<E001DateTimeStart>> ELSE <<>>),
         warnings |->
            (IF has_until /\ until_is_datetime(until) /\ ~ends_with(until, "Z")
             THEN <<W001>> ELSE <<>>)
            \o (IF w002_applies(has_count, has_until, has_between, has_limit)
                THEN <<W002>> ELSE <<>>)
            \o (IF KeyBYSETPOS \in DOMAIN fields /\ ~has_context(fields)
                THEN <<W003>> ELSE <<>>)]

\* The loop of lint over a sequence of rules
RECURSIVE lint_rules(_, _, _, _)
lint_rules(spec, rules, has_between, has_limit) ==
    IF rules = <<>> THEN [errors |-> <<>>, warnings |-> <<>>]
    ELSE LET rest == lint_rules(spec, SubSeq(rules, 1, Len(rules) - 1),
                                has_between, has_limit)
             last == lint_rule(spec, rules[Len(rules)], has_between, has_limit)
         IN  [errors |-> rest.errors \o last.errors,
              warnings |-> rest.warnings \o last.warnings]

\* lint(spec, has_between, has_limit): the RRULEs, then the EXRULEs
lint(spec, has_between, has_limit) ==
    lint_rules(spec, spec.rrules \o spec.exrules, has_between, has_limit)

\* ---------------------------------------------------------------- parsing
\* Wall-clock values are a day and an hour of that day; a day has two hours.
\* The naive local time of (day, hour), on the scale instants are counted in
NaiveLocal(day, hour) == 2 * day + hour

\* The UTC offset the zone has at instant u.  DstTz is two units behind UTC,
\* and one unit behind from instant 4 up to instant 6: its clocks skip local
\* time 2, the midnight of day 1, and show local time 4, the midnight of day
\* 2, twice.
offset_from_utc(tz, u) ==
    IF tz = DstTz THEN (IF u \in 4..5 THEN -1 ELSE -2) ELSE TzOffset(tz)

\* The instants a candidate for a local time is looked for among
UtcInstants == -1..8

\* TimeZone::from_local_datetime: the instants at which the zone's clocks
\* show `local`: none in a gap, two in an overlap, one otherwise
from_local_datetime(tz, local) ==
    {u \in UtcInstants : u + offset_from_utc(tz, u) = local}

\* A localize that settles an overlap by taking the earlier instant
localize_earliest(tz, local) ==
    LET found == from_local_datetime(tz, local)
    IN  IF found = {} THEN Err("InvalidDateTime")
        ELSE Ok(CHOOSE u \in found : \A v \in found : u <= v)

\* localize: LocalResult::single(), InvalidDateTime unless exactly one
\* instant shows the local time
localize(tz, local) ==
    LET found == from_local_datetime(tz, local)
    IN  IF Cardinality(found) = 1 THEN Ok(Unwrap(found)) ELSE Err("InvalidDateTime")

\* parse_iso_datetime(value, tz): <<instant, kind>>.  The forms are tried
\* in the code's order: YYYY-MM-DD, RFC 3339 with its own offset, then
\* YYYY-MM-DDTHH:MM:SS.
parse_iso_datetime(value, tz) ==
    IF value.form = "date"
    THEN LET dt == localize(tz, NaiveLocal(value.day, 0))
         IN  IF dt.err = "Ok" THEN Ok(<<dt.val, "DATE">>) ELSE dt
    ELSE IF value.form = "rfc3339"
    THEN Ok(<<NaiveLocal(value.day, value.hour) - value.offset, "DATE_TIME">>)
    ELSE IF value.form = "naive"
    THEN LET dt == localize(tz, NaiveLocal(value.day, value.hour))
         IN  IF dt.err = "Ok" THEN Ok(<<dt.val, "DATE_TIME">>) ELSE dt
    ELSE Err("InvalidDateTime")

\* The value is eight digits, YYYYMMDD
IsCompactDate(value) == value.form = "date"

\* value.ends_with('Z'): the last character of the text, whether or not the
\* text before it is a date-time
EndsWithZ(value) == value.form \in {"datetime", "other"} /\ value.z

\* parse_ics_datetime_value(value, tz, value_type)
parse_ics_datetime_value(value, tz, value_type) ==
    IF value_type = "DATE"
    THEN IF IsCompactDate(value) THEN localize(tz, NaiveLocal(value.day, 0))
         ELSE Err("InvalidDateTime")
    ELSE IF value.form # "datetime" THEN Err("InvalidDateTime")
    ELSE IF EndsWithZ(value) THEN Ok(NaiveLocal(value.day, value.hour))
    ELSE localize(tz, NaiveLocal(value.day, value.hour))

\* parse_ics_multi_datetime_values: every value of the list, or the first error
RECURSIVE parse_ics_multi_datetime_values(_, _, _)
parse_ics_multi_datetime_values(values, tz, value_type) ==
    IF values = <<>> THEN Ok(<<>>)
    ELSE LET first == parse_ics_datetime_value(Head(values), tz, value_type)
             rest == parse_ics_multi_datetime_values(Tail(values), tz, value_type)
         IN  IF first.err # "Ok" THEN first
             ELSE IF rest.err # "Ok" THEN rest
             ELSE Ok(<<first.val>> \o rest.val)

\* parse_value_type_for_multi: VALUE=DATE, or the first value is eight digits
parse_value_type_for_multi(line) ==
    IF line.value_param = Some("DATE") THEN "DATE"
    ELSE IF IsCompactDate(Head(line.values)) THEN "DATE"
    ELSE "DATE_TIME"

\* resolve_property_tz(params, fallback_tz): the zone name to resolve, the
\* TZID parameter before the fallback, UTC when there is neither
resolve_property_tz(line, fallback_tz) ==
    IF line.tzid # None THEN parse_timezone(Unwrap(line.tzid))
    ELSE IF fallback_tz # None THEN parse_timezone(Unwrap(fallback_tz))
    ELSE Some(UtcTz)

\* The locals of parse_ics_spec before its first line
IcsStart(fallback_tz) ==
    [err |-> "Ok", dtstart |-> None, dtstart_type |-> "DATE_TIME",
     tz_name |-> fallback_tz, rrules |-> <<>>, rdates |-> <<>>,
     exrules |-> <<>>, exdates |-> <<>>]

\* The DTSTART arm of parse_ics_spec
IcsDtstart(st, line, fallback_tz) ==
    LET value == Head(line.values)
        value_type == IF line.value_param = Some("DATE") THEN "DATE"
                      ELSE IF IsCompactDate(value) THEN "DATE"
                      ELSE "DATE_TIME"
        tzid == IF line.tzid # None THEN line.tzid ELSE fallback_tz
        tz == IF EndsWithZ(value) THEN Some(UtcTz)
              ELSE IF tzid # None THEN parse_timezone(Unwrap(tzid))
              ELSE None
    IN  IF ~EndsWithZ(value) /\ tzid = None THEN [st EXCEPT !.err = "InvalidIcs"]
        ELSE IF tz = None THEN [st EXCEPT !.err = "InvalidTimezone"]
        ELSE LET parsed == parse_ics_datetime_value(value, Unwrap(tz), value_type)
             IN  IF parsed.err # "Ok" THEN [st EXCEPT !.err = parsed.err]
                 ELSE [st EXCEPT !.dtstart = Some(parsed.val),
                                 !.dtstart_type = value_type,
                                 !.tz_name = IF tzid # None THEN tzid ELSE tz]

\* The RDATE and EXDATE arms of parse_ics_spec: the instants of the line
IcsDates(st, line) ==
    LET tz == resolve_property_tz(line, st.tz_name)
    IN  IF tz = None THEN Err("InvalidTimezone")
        ELSE parse_ics_multi_datetime_values(line.values, Unwrap(tz),
                                             parse_value_type_for_multi(line))

\* One turn of the loop of parse_ics_spec
\* The property names that carry a rule
KeyRRULE == <<"R", "R", "U", "L", "E">>
KeyEXRULE == <<"E", "X", "R", "U", "L", "E">>

\* input.replace("\r\n", "\n").replace('\r', "\n")
RECURSIVE normalize_breaks(_)
normalize_breaks(str) ==
    IF str = <<>> THEN <<>>
    ELSE IF Head(str) = "\r" /\ Len(str) > 1 /\ str[2] = "\n"
    THEN <<"\n">> \o normalize_breaks(Tail(Tail(str)))
    ELSE IF Head(str) = "\r" THEN <<"\n">> \o normalize_breaks(Tail(str))
    ELSE <<Head(str)>> \o normalize_breaks(Tail(str))

\* str::lines on a text whose line breaks are line feeds: the pieces between
\* them, without an empty piece after the last one
str_lines(str) ==
    LET pieces == split(str, "\n")
    IN  IF pieces[Len(pieces)] = <<>> THEN SubSeq(pieces, 1, Len(pieces) - 1)
        ELSE pieces

\* The loop of unfold_ics_lines: a raw line that starts with a space or a
\* tab continues the last line, if there is one
RECURSIVE UnfoldLoop(_, _)
UnfoldLoop(out, raws) ==
    IF raws = <<>> THEN out
    ELSE LET raw == Head(raws)
         IN  IF raw # <<>> /\ raw[1] \in {" ", "\t"}
             THEN IF out = <<>> THEN UnfoldLoop(out, Tail(raws))
                  ELSE UnfoldLoop([out EXCEPT ![Len(out)] = @ \o trim_start(raw)],
                                  Tail(raws))
             ELSE UnfoldLoop(Append(out, raw), Tail(raws))

\* unfold_ics_lines(input)
unfold_ics_lines(input) == UnfoldLoop(<<>>, str_lines(normalize_breaks(input)))

\* The name parse_property_head gives: the head up to its first ';',
\* trimmed, in upper case
PropertyName(head) == to_ascii_uppercase(trim(split(head, ";")[1]))

\* One pass of the loop of parse_ics_spec on a line of text.  A line
\* without ':' is skipped, the value is trimmed, and of the names only
\* RRULE and EXRULE are looked at: the lines a rule text is cut into name no
\* other property.
IcsTextLine(st, text) ==
    IF split_once(text, ":") = None THEN st
    ELSE LET head == Unwrap(split_once(text, ":"))[1]
             value == trim(Unwrap(split_once(text, ":"))[2])
         IN  IF PropertyName(head) = KeyRRULE
             THEN [st EXCEPT !.rrules = Append(@, [text |-> value])]
             ELSE IF PropertyName(head) = KeyEXRULE
             THEN [st EXCEPT !.exrules = Append(@, [text |-> value])]
             ELSE st

RECURSIVE IcsTextLoop(_, _)
IcsTextLoop(st, texts) ==
    IF texts = <<>> THEN st
    ELSE IcsTextLoop(IcsTextLine(st, Head(texts)), Tail(texts))

\* An RRULE or EXRULE line.  A rule given by its text is written into the
\* file as the name, ':' and the text, and that stretch of the file is
\* unfolded and read line by line; a rule of the engine model stands for a
\* validated rule string on a line of its own.
IcsRule(st, line) ==
    IF "text" \in DOMAIN line.rule
    THEN IcsTextLoop(st, unfold_ics_lines(
             (IF line.name = "RRULE" THEN KeyRRULE ELSE KeyEXRULE)
                 \o <<":">> \o line.rule.text))
    ELSE IF line.name = "RRULE" THEN [st EXCEPT !.rrules = Append(@, line.rule)]
    ELSE [st EXCEPT !.exrules = Append(@, line.rule)]

IcsLine(st, line, fallback_tz) ==
    IF line.name = "DTSTART" THEN IcsDtstart(st, line, fallback_tz)
    ELSE IF line.name \in {"RRULE", "EXRULE"} THEN IcsRule(st, line)
    ELSE IF line.name = "RDATE"
    THEN LET dates == IcsDates(st, line)
         IN  IF dates.err # "Ok" THEN [st EXCEPT !.err = dates.err]
             ELSE [st EXCEPT !.rdates = @ \o dates.val]
    ELSE IF line.name = "EXDATE"
    THEN LET dates == IcsDates(st, line)
         IN  IF dates.err # "Ok" THEN [st EXCEPT !.err = dates.err]
             ELSE [st EXCEPT !.exdates = @ \o dates.val]
    ELSE st

\* The loop of parse_ics_spec: it returns at the first line that fails
RECURSIVE IcsLoop(_, _, _)
IcsLoop(st, lines, fallback_tz) ==
    IF lines = <<>> \/ st.err # "Ok" THEN st
    ELSE IcsLoop(IcsLine(st, Head(lines), fallback_tz), Tail(lines), fallback_tz)

\* parse_ics_spec(input, fallback_tz).  The file is given line by line;
\* the lines that hold a rule text are unfolded in IcsRule.
parse_ics_spec(lines, fallback_tz) ==
    LET st == IcsLoop(IcsStart(fallback_tz), lines, fallback_tz)
    IN  IF st.err # "Ok" THEN Err(st.err)
        ELSE IF st.dtstart = None THEN Err("MissingField")
        ELSE IF st.rrules = <<>> /\ st.rdates = <<>> THEN Err("MissingField")
        ELSE Ok([dtstart |-> Unwrap(st.dtstart), dtstart_type |-> st.dtstart_type,
                 tz |-> Unwrap(st.tz_name), rrules |-> st.rrules,
                 rdates |-> st.rdates, exrules |-> st.exrules,
                 exdates |-> st.exdates])

\* ---------------------------------------------------------------- front end
\* InputArgs is a record of the flags of a command line: ics is None or the
\* file --ics names, with whether it can be read and its unfolded property
\* lines; dtstart and tz are None or the text given; rrule, rdate, exrule
\* and exdate list the values of the repeated flags.  "Usage" stands for
\* the bail! and anyhow! messages and "Io" for a file that cannot be read;
\* neither carries a CoreError.

\* reject_extra_direct_flags
reject_extra_direct_flags(input) ==
    IF \/ input.dtstart # None
       \/ input.rrule # <<>>
       \/ input.rdate # <<>>
       \/ input.exrule # <<>>
       \/ input.exdate # <<>>
    THEN Err("Usage")
    ELSE Ok(<<>>)

\* The loops of build_spec over --rdate and --exdate: the instant of every
\* value, or the error of the first value that has none
RECURSIVE parse_iso_datetimes(_, _)
parse_iso_datetimes(raws, tz) ==
    IF raws = <<>> THEN Ok(<<>>)
    ELSE LET first == parse_iso_datetime(Head(raws), tz)
         IN  IF first.err # "Ok" THEN first
             ELSE LET rest == parse_iso_datetimes(Tail(raws), tz)
                  IN  IF rest.err # "Ok" THEN rest
                      ELSE Ok(<<first.val[1]>> \o rest.val)

\* build_spec: the RecurrenceSpec of a command line, from the calendar file
\* when --ics is given and from the direct flags otherwise
build_spec(input) ==
    IF input.ics # None
    THEN IF reject_extra_direct_flags(input).err # "Ok"
         THEN reject_extra_direct_flags(input)
         ELSE IF ~Unwrap(input.ics).readable THEN Err("Io")
         ELSE parse_ics_spec(Unwrap(input.ics).lines, input.tz)
    ELSE IF input.dtstart = None THEN Err("Usage")
    ELSE IF input.tz = None THEN Err("Usage")
    ELSE IF input.rrule = <<>> THEN Err("Usage")
    ELSE IF parse_timezone(Unwrap(input.tz)) = None THEN Err("InvalidTimezone")
    ELSE LET tz == Unwrap(parse_timezone(Unwrap(input.tz)))
             dtstart == parse_iso_datetime(Unwrap(input.dtstart), tz)
             rdates == parse_iso_datetimes(input.rdate, tz)
             exdates == parse_iso_datetimes(input.exdate, tz)
         IN  IF dtstart.err # "Ok" THEN dtstart
             ELSE IF rdates.err # "Ok" THEN rdates
             ELSE IF exdates.err # "Ok" THEN exdates
             ELSE Ok([dtstart |-> dtstart.val[1], dtstart_type |-> dtstart.val[2],
                      tz |-> Unwrap(input.tz), rrules |-> input.rrule,
                      rdates |-> rdates.val, exrules |-> input.exrule,
                      exdates |-> exdates.val])

\* run_lint: the spec is built first; of --between and --limit only the
\* presence counts
run_lint(input, between, limit) ==
    LET built == build_spec(input)
    IN  IF built.err # "Ok" THEN built
        ELSE Ok(lint(built.val, between # None, limit # None))

\* The limit run_expand uses when --limit is absent
DefaultLimit == 1000

\* build_query: the usage checks, then the zone, then the query itself.
\* "Usage" stands for the bail! messages, which carry no CoreError.
build_query(spec, between, after, count) ==
    IF between # None /\ (after # None \/ count # None) THEN Err("Usage")
    ELSE IF (after # None) # (count # None) THEN Err("Usage")
    ELSE IF parse_timezone(spec.tz) = None THEN Err("InvalidTimezone")
    ELSE IF between # None
    THEN IF Unwrap(between)[1] > Unwrap(between)[2] THEN Err("Usage")
         ELSE Ok([kind |-> "Between", start |-> Unwrap(between)[1],
                  end |-> Unwrap(between)[2]])
    ELSE IF after # None /\ count # None
    THEN IF Unwrap(count) = 0 THEN Err("InvalidCount")
         ELSE Ok([kind |-> "After", start |-> Unwrap(after), count |-> Unwrap(count)])
    ELSE Ok([kind |-> "Unbounded"])

\* The guardrail without its third conjunct: a supplied --limit is ignored
UnboundedRefusedDespiteLimit(spec, query, limit) ==
    query.kind = "Unbounded" /\ is_potentially_unbounded(spec)

\* The guardrail of run_expand between build_query and expand_result
UnboundedRefused(spec, query, limit) ==
    query.kind = "Unbounded" /\ is_potentially_unbounded(spec) /\ limit = None

\* run_expand once build_spec has returned: the error of the build, or
\* the limit check, the query, the guardrail and the expansion
run_expand_built(built, limit, between, after, count) ==
    LET hard_limit == IF limit = None THEN DefaultLimit ELSE Unwrap(limit)
        query == build_query(built.val, between, after, count)
    IN  IF built.err # "Ok" THEN built
        ELSE IF hard_limit = 0 THEN Err("InvalidLimit")
        ELSE IF query.err # "Ok" THEN Err(query.err)
        ELSE IF UnboundedRefused(built.val, query.val, limit)
        THEN Err("UnsafeUnboundedRule")
        ELSE expand(built.val, query.val, hard_limit)

\* run_expand: the error kind and the occurrences printed.  The spec is
\* built before --limit is looked at.
run_expand(input, limit, between, after, count) ==
    run_expand_built(build_spec(input), limit, between, after, count)

\* An exit code that tells success from failure and nothing more
exit_code_failure_is_two(err) == IF err = "Ok" THEN 0 ELSE 2

\* exit_code_for_error, and ExitCode::SUCCESS for Ok
exit_code(err) ==
    IF err = "Ok" THEN 0
    ELSE IF err \in {"LimitExceeded", "UnsafeUnboundedRule"} THEN 3
    ELSE 2

\* Command lines of `rrulex expand`: each flag absent or given
CliInstants == {0, MaxT}
CliLimits == {None, Some(0), Some(MaxLimit)}
CliBetweens == {None} \cup {Some(<<a, b>>) : a \in CliInstants, b \in CliInstants}
CliAfters == {None} \cup {Some(a) : a \in CliInstants}
CliCounts == {None} \cup {Some(c) : c \in 0..1}

\* The window flags of one command line, <<--between, --after, --count>>:
\* --between alone, --after and --count without --between, and --between
\* next to --after or --count
CliWindows ==
    {<<b, None, None>> : b \in CliBetweens}
    \cup {<<None, a, c>> : a \in CliAfters, c \in CliCounts}
    \cup {<<Some(<<0, MaxT>>), a, c>> : a \in {None, Some(0)}, c \in {None, Some(1)}}

\* How a command line writes an instant: for --dtstart, --rdate and --exdate
\* as RFC 3339 text at offset zero, on a calendar line as YYYYMMDDTHHMMSSZ
IsoText(t) == [form |-> "rfc3339", day |-> t \div 2, hour |-> t % 2, offset |-> 0]
IcsText(t) == [form |-> "datetime", day |-> t \div 2, hour |-> t % 2, z |-> TRUE]

\* The command line that gives a DTSTART text, a zone and the four lists of
\* s by direct flags
FlagsInput(dtstart, tz, s) ==
    [ics |-> None, dtstart |-> Some(dtstart), tz |-> Some(tz),
     rrule |-> s.rrules,
     rdate |-> [i \in DOMAIN s.rdates |-> IsoText(s.rdates[i])],
     exrule |-> s.exrules,
     exdate |-> [i \in DOMAIN s.exdates |-> IsoText(s.exdates[i])]]

\* The lines of a calendar file with the same content: DTSTART with a TZID
\* parameter, then one line for every rule (its name, ':' and the rule as
\* it is written) and every date, the dates without parameters
IcsFile(dtstart, tz, s) ==
    <<[name |-> "DTSTART", tzid |-> Some(tz), value_param |-> None,
       values |-> <<dtstart>>]>>
    \o [i \in DOMAIN s.rrules |-> [name |-> "RRULE", rule |-> s.rrules[i]]]
    \o [i \in DOMAIN s.exrules |-> [name |-> "EXRULE", rule |-> s.exrules[i]]]
    \o [i \in DOMAIN s.rdates |->
           [name |-> "RDATE", tzid |-> None, value_param |-> None,
            values |-> <<IcsText(s.rdates[i])>>]]
    \o [i \in DOMAIN s.exdates |->
           [name |-> "EXDATE", tzid |-> None, value_param |-> None,
            values |-> <<IcsText(s.exdates[i])>>]]

\* The command line that names that file with --ics and gives no other flag
IcsInput(dtstart, tz, s) ==
    [ics |-> Some([readable |-> TRUE, lines |-> IcsFile(dtstart, tz, s)]),
     dtstart |-> None, tz |-> None, rrule |-> <<>>, rdate |-> <<>>,
     exrule |-> <<>>, exdate |-> <<>>]

\* The two command lines for the content of s
CliInputs(s) ==
    {FlagsInput(IsoText(s.dtstart), s.tz, s), IcsInput(IcsText(s.dtstart), s.tz, s)}

\* ---------------------------------------------------------------- state machine
\* One behaviour is one invocation: one operation of the library runs on a
\* RecurrenceSpec, or one command runs on a command line that gives the
\* content of the spec.  spec is the RecurrenceSpec, call the operation and
\* its arguments, res what it returned.
VARIABLES spec, call, res

vars == <<spec, call, res>>

Init ==
    /\ spec \in SpecInputs
    /\ call = [op |-> "none"]
    /\ res = [err |-> "none", val |-> <<>>]

\* The dates expand asks its set for lie within Horizon.  The one call that
\* asks for more is Unbounded with a hard_limit near 65535 on a set that
\* goes on: the code returns hard_limit occurrences there.
ExpandWithinHorizon(s, query, hard_limit) ==
    IF expand_guard(s, hard_limit) # "Ok" THEN TRUE
    ELSE IF TryU16(hard_limit + 1) = None THEN TRUE
    ELSE LET set == RRuleSet(s.dtstart, s.rrules, s.exrules, s.rdates, s.exdates)
         IN  CASE query.kind = "Between" -> TRUE
               [] query.kind = "After" ->
                     IF AfterCountCheck(query.count, hard_limit) # "Ok" THEN TRUE
                     ELSE AllWithinHorizon(SetAfter(set, query.start), query.count)
               [] query.kind = "Unbounded" -> AllWithinHorizon(set, hard_limit)

\* One call of expand on the spec
Expand(query, hard_limit) ==
    /\ call.op = "none"
    /\ ExpandWithinHorizon(spec, query, hard_limit)
    /\ call' = [op |-> "expand", query |-> query, hard_limit |-> hard_limit]
    /\ res' = expand(spec, query, hard_limit)
    /\ UNCHANGED spec

\* One call of explain on the spec
Explain(at) ==
    /\ call.op = "none"
    /\ call' = [op |-> "explain", at |-> at]
    /\ res' = explain(spec, at)
    /\ UNCHANGED spec

\* One run of `rrulex expand`: run_expand, and the exit code main gives
RunExpand(input, limit, between, after, count) ==
    /\ call.op = "none"
    /\ call' = [op |-> "run_expand", input |-> input, limit |-> limit,
                between |-> between, after |-> after, count |-> count]
    /\ LET out == run_expand(input, limit, between, after, count)
       IN  res' = [err |-> out.err, val |-> out.val, exit |-> exit_code(out.err)]
    /\ UNCHANGED spec

Next ==
    \/ \E q \in QueryInputs, l \in LimitInputs : Expand(q, l)
    \/ \E at \in Instants : Explain(at)
    \/ \E input \in CliInputs(spec), l \in CliLimits, w \in CliWindows :
          RunExpand(input, l, w[1], w[2], w[3])

Spec == Init /\ [][Next]_vars

\* ---------------------------------------------------------------- lint machine
\* The pieces rule strings are put together from: UNTIL with a DATE, a UTC
\* DATE-TIME, a local DATE-TIME and eight characters that are no date, with
\* its key in upper case and in padded lower case; COUNT in upper case, and
\* in lower case after a tab and before a carriage return, its '=' between
\* U+2003 and U+00A0; BYSETPOS in both
\* cases; the eight BYxxx context keys; FREQ; and a piece with no '='.
RuleParts ==
    {<<"U", "N", "T", "I", "L", "=", "2", "0", "2", "6", "0", "1", "1", "0">>,
     <<"U", "N", "T", "I", "L", "=", "2", "0", "2", "6", "0", "1", "1", "0", "T", "0", "0", "0", "0", "0", "0", "Z">>,
     <<"U", "N", "T", "I", "L", "=", "2", "0", "2", "6", "0", "1", "1", "0", "T", "0", "0", "0", "0", "0", "0">>,
     <<"U", "N", "T", "I", "L", "=", "2", "0", "2", "6", "0", "1", "1", "x">>,
     <<" ", "u", "n", "t", "i", "l", " ", "=", " ", "2", "0", "2", "6", "0", "1", "1", "0">>,
     <<" ", "u", "n", "t", "i", "l", " ", "=", " ", "2", "0", "2", "6", "0", "1", "1", "0", "T", "0", "0", "0", "0", "0", "0", "Z">>,
     <<" ", "u", "n", "t", "i", "l", " ", "=", " ", "2", "0", "2", "6", "0", "1", "1", "0", "T", "0", "0", "0", "0", "0", "0">>,
     <<" ", "u", "n", "t", "i", "l", " ", "=", " ", "2", "0", "2", "6", "0", "1", "1", "x">>,
     <<"C", "O", "U", "N", "T", "=", "1">>,
     <<"\t", "c", "o", "u", "n", "t", "U+2003", "=", "U+00A0", "1", "\r">>,
     <<"B", "Y", "S", "E", "T", "P", "O", "S", "=", "1">>,
     <<"b", "y", "s", "e", "t", "p", "o", "s", "=", "1">>,
     <<"B", "Y", "M", "O", "N", "T", "H", "=", "1">>,
     <<"B", "Y", "W", "E", "E", "K", "N", "O", "=", "1">>,
     <<"B", "Y", "Y", "E", "A", "R", "D", "A", "Y", "=", "1">>,
     <<"B", "Y", "M", "O", "N", "T", "H", "D", "A", "Y", "=", "1">>,
     <<"B", "Y", "D", "A", "Y", "=", "M", "O">>,
     <<"B", "Y", "H", "O", "U", "R", "=", "1">>,
     <<"B", "Y", "M", "I", "N", "U", "T", "E", "=", "1">>,
     <<"B", "Y", "S", "E", "C", "O", "N", "D", "=", "1">>,
     <<"F", "R", "E", "Q", "=", "D", "A", "I", "L", "Y">>,
     <<"C", "O", "U", "N", "T">>}

\* How many pieces the rules of one spec hold together
RuleFieldCounts == 0..2

\* The pieces joined with ';'
RECURSIVE JoinParts(_)
JoinParts(ps) ==
    IF Len(ps) = 0 THEN <<>>
    ELSE IF Len(ps) = 1 THEN ps[1]
    ELSE ps[1] \o <<";">> \o JoinParts(Tail(ps))

\* The pieces of ps the layout puts into slot n, in order
RECURSIVE SlotParts(_, _, _)
SlotParts(ps, layout, n) ==
    IF ps = <<>> THEN <<>>
    ELSE IF layout[1] = n
         THEN <<ps[1]>> \o SlotParts(Tail(ps), Tail(layout), n)
         ELSE SlotParts(Tail(ps), Tail(layout), n)

\* The rules of the slots ns that hold a piece
RECURSIVE SlotRules(_, _, _)
SlotRules(ps, layout, ns) ==
    IF ns = <<>> THEN <<>>
    ELSE (IF \E i \in DOMAIN layout : layout[i] = ns[1]
          THEN <<[text |-> JoinParts(SlotParts(ps, layout, ns[1]))]>>
          ELSE <<>>)
         \o SlotRules(ps, layout, Tail(ns))

\* Slots 1 and 2 are the first and second RRULE, slot 3 the EXRULE.  A
\* layout fills the slots in order and uses the second RRULE only after the
\* first.
Layouts(k) ==
    {layout \in [1..k -> 1..3] :
        /\ \A i \in 1..(k - 1) : layout[i] <= layout[i + 1]
        /\ (\E i \in 1..k : layout[i] = 2) => (\E i \in 1..k : layout[i] = 1)}

\* RDATE and EXDATE lists of a linted spec
LintDateLists == {<<<<>>, <<>>>>, <<<<0>>, <<>>>>, <<<<>>, <<0>>>>}

\* The specs lint is run on
LintSpecs ==
    {[dtstart_type |-> ty,
      rrules |-> SlotRules(pl[1], pl[2], <<1, 2>>),
      exrules |-> SlotRules(pl[1], pl[2], <<3>>),
      rdates |-> ds[1], exdates |-> ds[2]] :
        ty \in {"DATE", "DATE_TIME"},
        pl \in UNION {[1..k -> RuleParts] \X Layouts(k) : k \in RuleFieldCounts},
        ds \in LintDateLists}

LintInit ==
    /\ spec \in LintSpecs
    /\ call = [op |-> "none"]
    /\ res = [err |-> "none", val |-> <<>>]

\* lint(spec, has_between, has_limit)
Lint(has_between, has_limit) ==
    /\ call.op = "none"
    /\ call' = [op |-> "lint", has_between |-> has_between, has_limit |-> has_limit]
    /\ res' = [err |-> "Ok", val |-> lint(spec, has_between, has_limit)]
    /\ UNCHANGED spec

\* The zones a lint command line names
LintZones == {GoodTz, BadTz}

\* The command lines for the content of a linted spec: DTSTART is day 0,
\* written as a date or as its midnight in UTC
LintInputs(s) ==
    {FlagsInput(IF s.dtstart_type = "DATE" THEN [form |-> "date", day |-> 0]
                ELSE IsoText(0), tz, s) : tz \in LintZones}
    \cup {IcsInput(IF s.dtstart_type = "DATE" THEN [form |-> "date", day |-> 0]
                   ELSE IcsText(0), tz, s) : tz \in LintZones}

\* One run of `rrulex lint`, with --between and --limit each absent or given.
\* call.built is what build_spec made of the command line.
RunLint(input, between, limit) ==
    /\ call.op = "none"
    /\ call' = [op |-> "run_lint", input |-> input, has_between |-> between # None,
                has_limit |-> limit # None, built |-> build_spec(input)]
    /\ res' = run_lint(input, between, limit)
    /\ UNCHANGED spec

\* is_potentially_unbounded(spec)
IsPotentiallyUnbounded ==
    /\ call.op = "none"
    /\ call' = [op |-> "is_potentially_unbounded"]
    /\ res' = [err |-> "Ok", val |-> is_potentially_unbounded(spec)]
    /\ UNCHANGED spec

LintNext ==
    \/ \E hb \in BOOLEAN, hl \in BOOLEAN : Lint(hb, hl)
    \/ \E input \in LintInputs(spec), b \in {None, Some(<<0, MaxT>>)},
          l \in {None, Some(MaxLimit)} :
          RunLint(input, b, l)
    \/ IsPotentiallyUnbounded

LintSpec == LintInit /\ [][LintNext]_vars

\* ---------------------------------------------------------------- parse machine
\* Here spec is the text handed to a parser, or the command line handed to
\* build_spec, and res what was built from it.
Days == 0..2
Hours == 0..1

\* --dtstart, --rdate, --exdate values: YYYY-MM-DD, RFC 3339 with an offset,
\* YYYY-MM-DDTHH:MM:SS, and text in none of these forms
IsoValues ==
    {[form |-> "date", day |-> d] : d \in Days}
    \cup {[form |-> "rfc3339", day |-> d, hour |-> h, offset |-> o] :
             d \in Days, h \in Hours, o \in {0, 1}}
    \cup {[form |-> "naive", day |-> d, hour |-> h] : d \in Days, h \in Hours}
    \cup {[form |-> "other"]}

\* Values of RDATE and EXDATE lines: YYYYMMDD, YYYYMMDDTHHMMSS with and
\* without Z, and text in none of these forms, with and without a Z at its
\* end
IcsValues ==
    {[form |-> "date", day |-> d] : d \in Days}
    \cup {[form |-> "datetime", day |-> d, hour |-> h, z |-> FALSE] :
             d \in Days, h \in Hours}
    \cup {[form |-> "datetime", day |-> d, hour |-> 1, z |-> TRUE] : d \in {0, 2}}
    \cup {[form |-> "other", z |-> z] : z \in BOOLEAN}

\* Values of the DTSTART line: day 1, whose midnight DstTz skips, and text
\* that is no date, with and without a Z at its end
DtstartValues ==
    {[form |-> "date", day |-> 1],
     [form |-> "datetime", day |-> 1, hour |-> 0, z |-> FALSE],
     [form |-> "datetime", day |-> 1, hour |-> 0, z |-> TRUE],
     [form |-> "other", z |-> FALSE],
     [form |-> "other", z |-> TRUE]}

TzidParams == {None, Some(GoodTz), Some(DstTz), Some(BadTz)}
ValueParams == {None, Some("DATE")}
FallbackZones == {None, Some(GoodTz), Some(DstTz)}

DtstartLines ==
    {[name |-> "DTSTART", tzid |-> t, value_param |-> vp, values |-> <<v>>] :
        t \in TzidParams, vp \in ValueParams, v \in DtstartValues}

DateLines ==
    {[name |-> n, tzid |-> t, value_param |-> vp, values |-> <<v>>] :
        n \in {"RDATE", "EXDATE"}, t \in TzidParams, vp \in ValueParams,
        v \in IcsValues}

RruleLine ==
    [name |-> "RRULE", rule |-> [text |-> <<"F", "R", "E", "Q", "=", "D", "A", "I", "L", "Y">>]]

\* Calendar texts: a DTSTART line and a date line in either order, with or
\* without an RRULE line after them; and texts with no DTSTART line
IcsTexts ==
    {<<a, b>> \o tail : a \in DtstartLines, b \in DateLines,
                        tail \in {<<>>, <<RruleLine>>}}
    \cup {<<b, a>> \o tail : a \in DtstartLines, b \in DateLines,
                             tail \in {<<>>, <<RruleLine>>}}
    \cup {<<b, RruleLine>> : b \in DateLines}

\* Values of --dtstart, --rdate and --exdate on the command lines built
\* into a spec: a date whose midnight DstTz skips, an RFC 3339 text, a
\* wall-clock time DstTz shows twice, and text in no form
BuildValues ==
    {[form |-> "date", day |-> 1],
     [form |-> "rfc3339", day |-> 0, hour |-> 1, offset |-> 1],
     [form |-> "naive", day |-> 2, hour |-> 0],
     [form |-> "other"]}

\* Calendar files named by --ics
BuildFiles ==
    {[readable |-> r, lines |-> ls] :
        r \in BOOLEAN,
        ls \in {<<[name |-> "DTSTART", tzid |-> None, value_param |-> None,
                   values |-> <<v>>]>> \o tail :
                    v \in {[form |-> "datetime", day |-> 1, hour |-> 0, z |-> TRUE],
                           [form |-> "datetime", day |-> 1, hour |-> 0, z |-> FALSE]},
                    tail \in {<<>>, <<RruleLine>>}}}

\* Command lines: the direct flags each absent or given, and --ics alone,
\* with --tz, or with flags it cannot be combined with
BuildInputs ==
    {[ics |-> None, dtstart |-> d, tz |-> z, rrule |-> rr, rdate |-> rd,
      exrule |-> <<>>, exdate |-> xd] :
        d \in {None} \cup {Some(v) : v \in BuildValues},
        z \in TzidParams,
        rr \in {<<>>, <<RruleLine.rule>>},
        rd \in {<<>>} \cup {<<v>> : v \in BuildValues},
        xd \in {<<>>} \cup {<<v>> : v \in BuildValues}}
    \cup {[ics |-> Some(f), dtstart |-> d, tz |-> z, rrule |-> <<>>, rdate |-> <<>>,
           exrule |-> xr, exdate |-> <<>>] :
             f \in BuildFiles,
             d \in {None, Some([form |-> "date", day |-> 1])},
             z \in TzidParams,
             xr \in {<<>>, <<RruleLine.rule>>}}

ParseInputs ==
    {[kind |-> "ics", lines |-> ls, fallback_tz |-> f] :
        ls \in IcsTexts, f \in FallbackZones}
    \cup {[kind |-> "iso", value |-> v, tz |-> z] : v \in IsoValues, z \in KnownZones}
    \cup {[kind |-> "args", input |-> i] : i \in BuildInputs}

ParseInit ==
    /\ spec \in ParseInputs
    /\ call = [op |-> "none"]
    /\ res = [err |-> "none", val |-> <<>>]

\* parse_ics_spec(input, fallback_tz)
ParseIcsSpec ==
    /\ call.op = "none"
    /\ spec.kind = "ics"
    /\ call' = [op |-> "parse_ics_spec"]
    /\ res' = parse_ics_spec(spec.lines, spec.fallback_tz)
    /\ UNCHANGED spec

\* parse_iso_datetime(value, tz)
ParseIsoDatetime ==
    /\ call.op = "none"
    /\ spec.kind = "iso"
    /\ call' = [op |-> "parse_iso_datetime"]
    /\ res' = parse_iso_datetime(spec.value, spec.tz)
    /\ UNCHANGED spec

\* build_spec(input)
BuildSpec ==
    /\ call.op = "none"
    /\ spec.kind = "args"
    /\ call' = [op |-> "build_spec"]
    /\ res' = build_spec(spec.input)
    /\ UNCHANGED spec

ParseNext == ParseIcsSpec \/ ParseIsoDatetime \/ BuildSpec

ParseSpec == ParseInit /\ [][ParseNext]_vars

\* ---------------------------------------------------------------- properties
\* The recurrence set of a spec, stated directly: the instants some RRULE
\* or RDATE gives, minus those an EXRULE or EXDATE gives.
IsGenerated(s, t) ==
    \/ \E i \in DOMAIN s.rrules : RuleGenerates(s.dtstart, s.rrules[i], t)
    \/ \E j \in DOMAIN s.rdates : s.rdates[j] = t

IsRemoved(s, t) ==
    \/ \E i \in DOMAIN s.exrules : RuleGenerates(s.dtstart, s.exrules[i], t)
    \/ \E j \in DOMAIN s.exdates : s.exdates[j] = t

RecurrenceSet(s) == {t \in 0..Horizon : IsGenerated(s, t) /\ ~IsRemoved(s, t)}

ExpandCalled == call.op = "expand"
ExpandOk == call.op = "expand" /\ res.err = "Ok"
ExplainOk == call.op = "explain" /\ res.err = "Ok"

\* The instants of the occurrences expand returned
OccInstants == {res.val[k].start_utc : k \in DOMAIN res.val}

\* C1: every occurrence of an After{start, count} query lies strictly after
\* start; an instant of the set equal to start is never returned.
C1_AfterStrictlyAfterStart ==
    (ExpandOk /\ call.query.kind = "After")
        => \A k \in DOMAIN res.val : res.val[k].start_utc > call.query.start

\* C2: every occurrence of a Between{start, end} query lies in [start, end],
\* and an instant of the recurrence set exactly on start or on end is returned.
C2_BetweenInclusive ==
    (ExpandOk /\ call.query.kind = "Between")
        => /\ \A k \in DOMAIN res.val :
                /\ call.query.start <= res.val[k].start_utc
                /\ res.val[k].start_utc <= call.query.end
           /\ \A t \in {call.query.start, call.query.end} :
                t \in RecurrenceSet(spec) => t \in OccInstants

\* C3: a Between query on a valid spec with hard_limit >= 1 is never
\* truncated silently: more than hard_limit instants of the recurrence set
\* inside the window give LimitExceeded and no occurrences, and an Ok result
\* holds every instant of the set inside the window.
C3_BetweenNeverTruncates ==
    (ExpandCalled /\ call.query.kind = "Between" /\ ValidSpec(spec)
        /\ call.hard_limit >= 1)
        => LET inside == {t \in RecurrenceSet(spec) :
                             call.query.start <= t /\ t <= call.query.end}
           IN  /\ Cardinality(inside) > call.hard_limit
                    => res.err = "LimitExceeded" /\ res.val = <<>>
               /\ res.err = "Ok" => inside \subseteq OccInstants

\* C4: an Ok result of expand holds at most hard_limit occurrences, for every
\* query variant, and at most count of them for After{start, count}.
C4_SizeWithinLimit ==
    ExpandOk
        => /\ Len(res.val) <= call.hard_limit
           /\ call.query.kind = "After" => Len(res.val) <= call.query.count

C4_Witness ==
    /\ ExpandOk /\ call.query.kind = "After"
    /\ call.query.count < call.hard_limit
    /\ Len(res.val) = call.query.count
    /\ Cardinality(RecurrenceSet(spec)) > call.query.count

\* C5: hard_limit = 0 gives InvalidLimit for every spec and every query,
\* also when the zone is unknown or a rule is invalid; the expand command
\* reports InvalidLimit for --limit 0 on every spec it builds from its
\* command line, before it looks at the window flags or resolves the
\* spec's zone.
C5_ZeroLimitIsInvalid ==
    /\ (ExpandCalled /\ call.hard_limit = 0)
          => res.err = "InvalidLimit" /\ res.val = <<>>
    /\ (call.op = "run_expand" /\ call.limit = Some(0)
          /\ build_spec(call.input).err = "Ok")
          => res.err = "InvalidLimit" /\ res.val = <<>>

\* --limit 0 on a command line whose spec is never built: the error is the
\* one build_spec gives
C5_UnbuiltReached ==
    /\ call.op = "run_expand"
    /\ call.limit = Some(0)
    /\ call.input.tz = Some(BadTz)
    /\ res.err = "InvalidTimezone"

\* --limit 0 on a spec built from a calendar file whose TZID names no zone,
\* together with window flags that exclude each other
C5_CliReached ==
    /\ call.op = "run_expand"
    /\ call.limit = Some(0)
    /\ call.input.ics # None
    /\ spec.tz = BadTz
    /\ call.between # None
    /\ call.count # None
    /\ res.err = "InvalidLimit"

C5_Witness ==
    /\ ExpandCalled /\ call.hard_limit = 0
    /\ spec.tz = BadTz
    /\ res.err = "InvalidLimit"

\* C6: an After query with count = 0 on a valid spec with hard_limit >= 1
\* gives InvalidCount and no occurrences.
C6_ZeroCountIsInvalid ==
    (ExpandCalled /\ call.query.kind = "After" /\ call.query.count = 0
        /\ ValidSpec(spec) /\ call.hard_limit >= 1)
        => res.err = "InvalidCount" /\ res.val = <<>>

\* C7: an instant that is both an RDATE and generated by an RRULE is emitted
\* exactly once, as RDATE with the position of an RDATE of that timestamp;
\* no two occurrences of one result share an instant.  Stated for specs that
\* list no RDATE twice.
C7_OverlapEmittedOnce ==
    (/\ ExpandOk
     /\ \A j1 \in DOMAIN spec.rdates : \A j2 \in DOMAIN spec.rdates :
           j1 # j2 => spec.rdates[j1] # spec.rdates[j2])
        => /\ \A k \in DOMAIN res.val :
                (/\ \E j \in DOMAIN spec.rdates : spec.rdates[j] = res.val[k].start_utc
                 /\ \E i \in DOMAIN spec.rrules :
                       RuleGenerates(spec.dtstart, spec.rrules[i], res.val[k].start_utc))
                => /\ res.val[k].source = "RDATE"
                   /\ res.val[k].rule_index + 1 \in DOMAIN spec.rdates
                   /\ spec.rdates[res.val[k].rule_index + 1] = res.val[k].start_utc
           /\ \A k1 \in DOMAIN res.val : \A k2 \in DOMAIN res.val :
                k1 # k2 => res.val[k1].start_utc # res.val[k2].start_utc

\* C8: for every occurrence o that expand returns, explain(spec, o.instant)
\* reports included = true, generated_by = o.source and
\* generated_rule_index = o.rule_index.
C8_ExplainAgreesWithOccurrences ==
    ExpandOk
        => \A k \in DOMAIN res.val :
              LET e == explain(spec, res.val[k].start_utc)
              IN  /\ e.err = "Ok"
                  /\ e.val.included
                  /\ e.val.generated_by = Some(res.val[k].source)
                  /\ e.val.generated_rule_index = Some(res.val[k].rule_index)

C8_Witness ==
    /\ ExpandOk
    /\ \E k \in DOMAIN res.val : res.val[k].source = "RDATE"
    /\ \E k \in DOMAIN res.val : res.val[k].source = "RRULE"
    /\ spec.exdates # <<>> \/ spec.exrules # <<>>

\* C9: when some EXRULE alone produces `at` and no EXDATE equals it, explain
\* reports excluded_by = "EXRULE", included = false and the note
\* "Excluded by EXRULE".
C9_ExruleExclusionExplained ==
    (/\ ExplainOk
     /\ \E i \in DOMAIN spec.exrules :
           RuleGenerates(spec.dtstart, spec.exrules[i], call.at)
     /\ ~\E j \in DOMAIN spec.exdates : spec.exdates[j] = call.at)
        => /\ res.val.excluded_by = Some("EXRULE")
           /\ ~res.val.included
           /\ \E n \in DOMAIN res.val.notes : res.val.notes[n] = "Excluded by EXRULE"

\* C10: excluded_by is "EXDATE" whenever an EXDATE has the timestamp of `at`,
\* also when an EXRULE produces it; included holds exactly when generated_by
\* is present and excluded_by absent; generated_rule_index is present exactly
\* when generated_by is.
C10_ExplainResultShape ==
    ExplainOk
        => /\ (\E j \in DOMAIN spec.exdates : spec.exdates[j] = call.at)
                => res.val.excluded_by = Some("EXDATE")
           /\ res.val.included
                <=> (res.val.generated_by # None /\ res.val.excluded_by = None)
           /\ (res.val.generated_rule_index # None) <=> (res.val.generated_by # None)

C10_Witness ==
    /\ ExplainOk
    /\ \E j \in DOMAIN spec.exdates : spec.exdates[j] = call.at
    /\ \E i \in DOMAIN spec.exrules :
          RuleGenerates(spec.dtstart, spec.exrules[i], call.at)
    /\ res.val.generated_by # None
    /\ res.val.excluded_by = Some("EXDATE")
    /\ ~res.val.included

\* C11: the vector expand returns is in ascending order of the key
\* (start_utc, start_local, rule_index): no element sorts strictly before
\* its predecessor, whatever the query variant.
C11_SortedByKey ==
    ExpandOk =>
        \A k \in 1..(Len(res.val) - 1) :
            LET a == res.val[k]
                b == res.val[k + 1]
            IN  \/ a.start_utc < b.start_utc
                \/ /\ a.start_utc = b.start_utc
                   /\ \/ a.start_local < b.start_local
                      \/ /\ a.start_local = b.start_local
                         /\ a.rule_index <= b.rule_index

C11_Witness ==
    /\ ExpandOk
    /\ Len(res.val) >= 2
    /\ \E k \in 1..(Len(res.val) - 1) : res.val[k].start_utc < res.val[k + 1].start_utc

RunExpandCalled == call.op = "run_expand"

\* The command line asked for no window: no --between, no --after, no --count
CliUnbounded ==
    call.between = None /\ call.after = None /\ call.count = None

\* Some RRULE of the spec carries neither COUNT nor UNTIL
SomeRruleEndless ==
    \E i \in DOMAIN spec.rrules :
        spec.rrules[i].count = None /\ spec.rrules[i].until = None

\* C12: on a built spec whose zone resolves, `rrulex expand` fails with
\* UnsafeUnboundedRule, returning nothing, exactly when the command line
\* asks for no window, gives no --limit, and some RRULE has neither COUNT
\* nor UNTIL; with --limit N (N >= 1) and no window the same spec goes to
\* expand with hard_limit N and an Ok result holds at most N occurrences.
C12_UnboundedGuardrail ==
    (RunExpandCalled /\ parse_timezone(spec.tz) # None
        /\ build_spec(call.input).err = "Ok") =>
        /\ (res.err = "UnsafeUnboundedRule")
              <=> (CliUnbounded /\ call.limit = None /\ SomeRruleEndless)
        /\ res.err = "UnsafeUnboundedRule" => res.val = <<>>
        /\ \A n \in call.limit :
              (n >= 1 /\ CliUnbounded) =>
                  /\ res.err = expand(spec, [kind |-> "Unbounded"], n).err
                  /\ res.val = expand(spec, [kind |-> "Unbounded"], n).val
                  /\ res.err = "Ok" => Len(res.val) <= n

C12_Witness ==
    /\ RunExpandCalled
    /\ parse_timezone(spec.tz) # None
    /\ CliUnbounded
    /\ call.limit = None
    /\ SomeRruleEndless
    /\ res.err = "UnsafeUnboundedRule"

\* The same command line with --limit given: the spec is expanded
C12_LimitedReached ==
    /\ RunExpandCalled
    /\ CliUnbounded
    /\ SomeRruleEndless
    /\ call.limit = Some(MaxLimit)
    /\ res.err = "Ok"
    /\ Len(res.val) = MaxLimit

\* C13: the exit code of `rrulex expand` is 0 on success, 3 when the failure
\* is LimitExceeded or UnsafeUnboundedRule, and 2 for every other failure.
C13_ExitCodes ==
    RunExpandCalled =>
        /\ res.err = "Ok" => res.exit = 0
        /\ res.err \in {"LimitExceeded", "UnsafeUnboundedRule"} => res.exit = 3
        /\ res.err \notin {"Ok", "LimitExceeded", "UnsafeUnboundedRule"} => res.exit = 2

C13_Witness ==
    /\ RunExpandCalled
    /\ res.err = "LimitExceeded"
    /\ res.exit = 3

\* A command line whose spec is not built exits with 2
C13_BuildErrorReached ==
    /\ RunExpandCalled
    /\ build_spec(call.input).err = "Usage"
    /\ res.err = "Usage"
    /\ res.exit = 2

\* C20: an occurrence whose instant equals no RDATE has source "RRULE" and,
\* as rule_index, the smallest (zero-based) position of an RRULE that with
\* DTSTART alone generates the instant; 0 when no RRULE does.
C20_RuleIndexIsFirstMatch ==
    ExpandOk =>
        \A k \in DOMAIN res.val :
            LET o == res.val[k]
                hits == {i \in DOMAIN spec.rrules :
                            RuleGenerates(spec.dtstart, spec.rrules[i], o.start_utc)}
            IN  (\A j \in DOMAIN spec.rdates : spec.rdates[j] # o.start_utc) =>
                    /\ o.source = "RRULE"
                    /\ hits # {} => /\ o.rule_index + 1 \in hits
                                    /\ \A i \in hits : o.rule_index + 1 <= i
                    /\ hits = {} => o.rule_index = 0

C20_Witness ==
    /\ ExpandOk
    /\ \E k \in DOMAIN res.val :
          /\ res.val[k].source = "RRULE"
          /\ res.val[k].rule_index = 1
    /\ \E k \in DOMAIN res.val :
          /\ res.val[k].source = "RRULE"
          /\ res.val[k].rule_index = 0
          /\ \A i \in DOMAIN spec.rrules :
                RuleGenerates(spec.dtstart, spec.rrules[i], res.val[k].start_utc)
    /\ Len(spec.rrules) = 2

\* ---- rule fields, stated on the text of a rule
\* lint ran, by itself or in a run of `rrulex lint` whose spec was built
LintCalled == call.op \in {"lint", "run_lint"} /\ res.err = "Ok"

\* The spec lint is given: the one `rrulex lint` built from its command
\* line, or the one lint was called on
LintedSpec == IF call.op = "run_lint" THEN call.built.val ELSE spec

\* The RRULEs, then the EXRULEs, as lint walks them
LintedRules == LintedSpec.rrules \o LintedSpec.exrules

\* The key text, once trimmed, spells `name` when letter case is ignored
SpellsKey(text, name) ==
    LET key == trim(text)
    IN  /\ Len(key) = Len(name)
        /\ \A i \in DOMAIN name :
              \/ key[i] = name[i]
              \/ \E k \in DOMAIN LowerAlphabet :
                    LowerAlphabet[k] = key[i] /\ UpperAlphabet[k] = name[i]

\* The positions of the key=value pieces of the rule whose key spells `name`
FieldPositions(rule, name) ==
    LET pairs == RulePairs(rule.text)
    IN  {i \in DOMAIN pairs :
            pairs[i] # None /\ SpellsKey(Unwrap(pairs[i])[1], name)}

HasField(rule, name) == FieldPositions(rule, name) # {}

\* The value the last piece with that key gives, trimmed
LastValue(rule, name) ==
    trim(Unwrap(RulePairs(rule.text)[SetMax(FieldPositions(rule, name))])[2])

CountCode(findings, code) ==
    Cardinality({i \in DOMAIN findings : findings[i].code = code})

\* The rule's UNTIL has a value type other than DTSTART's
UntilMismatch(rule) ==
    /\ HasField(rule, KeyUNTIL)
    /\ LET until == LastValue(rule, KeyUNTIL)
       IN  \/ /\ LintedSpec.dtstart_type = "DATE"
              /\ contains(until, "T")
           \/ /\ LintedSpec.dtstart_type = "DATE_TIME"
              /\ Len(until) = 8
              /\ \A i \in DOMAIN until : until[i] \in AsciiDigits

\* C14: lint reports one E001 for each RRULE or EXRULE whose UNTIL has a
\* value type other than DTSTART's (DTSTART a DATE and UNTIL holding a 'T',
\* or DTSTART a DATE-TIME and UNTIL eight digits), and no other error: the
\* E001 findings are as many as the mismatching rules, and each names the
\* kind DTSTART has.
C14_UntilTypeMismatch ==
    LintCalled =>
        /\ CountCode(res.val.errors, "E001")
              = Cardinality({i \in DOMAIN LintedRules : UntilMismatch(LintedRules[i])})
        /\ \A k \in DOMAIN res.val.errors :
              /\ res.val.errors[k].code = "E001"
              /\ res.val.errors[k] =
                    (IF LintedSpec.dtstart_type = "DATE" THEN E001DateStart ELSE E001DateTimeStart)

C14_Witness ==
    /\ LintCalled
    /\ Len(LintedRules) = 2
    /\ UntilMismatch(LintedRules[1])
    /\ ~UntilMismatch(LintedRules[2])
    /\ HasField(LintedRules[2], KeyUNTIL)
    /\ CountCode(res.val.errors, "E001") = 1

\* C15: lint reports one W002 for each rule that has neither a COUNT nor an
\* UNTIL field when neither --between nor --limit was given, and no W002 at
\* all when either was given.
C15_UnboundedWarning ==
    LintCalled =>
        CountCode(res.val.warnings, "W002")
            = IF call.has_between \/ call.has_limit THEN 0
              ELSE Cardinality({i \in DOMAIN LintedRules :
                                   /\ ~HasField(LintedRules[i], KeyCOUNT)
                                   /\ ~HasField(LintedRules[i], KeyUNTIL)})

C15_Witness ==
    /\ call.op = "run_lint"
    /\ res.err = "Ok"
    /\ ~call.has_between
    /\ ~call.has_limit
    /\ Len(LintedRules) = 2
    /\ HasField(LintedRules[1], KeyCOUNT)
    /\ CountCode(res.val.warnings, "W002") = 1

\* With --limit alone the warning is withheld
C15_LimitSilences ==
    /\ call.op = "run_lint"
    /\ res.err = "Ok"
    /\ ~call.has_between
    /\ call.has_limit
    /\ \E i \in DOMAIN LintedRules :
          ~HasField(LintedRules[i], KeyCOUNT) /\ ~HasField(LintedRules[i], KeyUNTIL)
    /\ CountCode(res.val.warnings, "W002") = 0

\* C16: lint reports one W003 for each rule that has a BYSETPOS field and
\* none of the eight BYxxx context fields; keys count whatever their letter
\* case, and a key written more than once has the value of its last piece.
C16_BysetposWithoutContext ==
    LintCalled =>
        /\ CountCode(res.val.warnings, "W003")
              = Cardinality({i \in DOMAIN LintedRules :
                                /\ HasField(LintedRules[i], KeyBYSETPOS)
                                /\ \A key \in ContextKeys : ~HasField(LintedRules[i], key)})
        /\ \A i \in DOMAIN LintedRules :
              LET fields == parse_rule_fields(LintedRules[i])
              IN  \A name \in {KeyCOUNT, KeyUNTIL, KeyBYSETPOS} \cup ContextKeys :
                      /\ (name \in DOMAIN fields) <=> HasField(LintedRules[i], name)
                      /\ name \in DOMAIN fields =>
                            fields[name] = LastValue(LintedRules[i], name)

C16_Witness ==
    /\ LintCalled
    /\ Len(LintedRules) = 1
    /\ HasField(LintedRules[1], KeyBYSETPOS)
    /\ KeyBYSETPOS \notin {Unwrap(RulePairs(LintedRules[1].text)[i])[1] :
                              i \in FieldPositions(LintedRules[1], KeyBYSETPOS)}
    /\ CountCode(res.val.warnings, "W003") = 1

\* A context key next to a lower-case bysetpos silences W003
C16_ContextSilences ==
    /\ LintCalled
    /\ Len(LintedRules) = 1
    /\ HasField(LintedRules[1], KeyBYSETPOS)
    /\ KeyBYSETPOS \notin {Unwrap(RulePairs(LintedRules[1].text)[i])[1] :
                              i \in FieldPositions(LintedRules[1], KeyBYSETPOS)}
    /\ \E key \in ContextKeys : HasField(LintedRules[1], key)
    /\ CountCode(res.val.warnings, "W003") = 0

\* A key written twice with two values: the second one counts
C16_LastValueReached ==
    /\ LintCalled
    /\ Len(LintedRules) = 1
    /\ Cardinality(FieldPositions(LintedRules[1], KeyUNTIL)) = 2
    /\ LintedSpec.dtstart_type = "DATE_TIME"
    /\ contains(Unwrap(RulePairs(LintedRules[1].text)[1])[2], "T")
    /\ CountCode(res.val.errors, "E001") = 1

\* C17: is_potentially_unbounded(spec) is true exactly when some RRULE has
\* neither a COUNT nor an UNTIL field.  The EXRULEs, RDATEs and EXDATEs
\* play no part, and a spec with no RRULE is never potentially unbounded.
C17_PotentiallyUnbounded ==
    call.op = "is_potentially_unbounded" =>
        /\ res.val = (\E i \in DOMAIN spec.rrules :
                         /\ ~HasField(spec.rrules[i], KeyCOUNT)
                         /\ ~HasField(spec.rrules[i], KeyUNTIL))
        /\ spec.rrules = <<>> => res.val = FALSE

C17_Witness ==
    /\ call.op = "is_potentially_unbounded"
    /\ Len(spec.rrules) = 2
    /\ HasField(spec.rrules[1], KeyCOUNT)
    /\ ~HasField(spec.rrules[2], KeyCOUNT)
    /\ ~HasField(spec.rrules[2], KeyUNTIL)
    /\ res.val = TRUE

\* An endless EXRULE next to no RRULE: not potentially unbounded
C17_ExruleAloneReached ==
    /\ call.op = "is_potentially_unbounded"
    /\ spec.rrules = <<>>
    /\ spec.rdates # <<>>
    /\ \E i \in DOMAIN spec.exrules :
          /\ ~HasField(spec.exrules[i], KeyCOUNT)
          /\ ~HasField(spec.exrules[i], KeyUNTIL)
    /\ res.val = FALSE

\* ---- calendar lines, stated on the text
ParseIcsCalled == call.op = "parse_ics_spec"

\* The line gives a wall-clock value: a DATE, or a DATE-TIME without Z that
\* no VALUE=DATE parameter contradicts
IsLocalLine(line) ==
    /\ line.name \in {"DTSTART", "RDATE", "EXDATE"}
    /\ \/ line.values[1].form = "date"
       \/ /\ line.values[1].form = "datetime"
          /\ ~line.values[1].z
          /\ line.value_param = None

\* The naive local time the line gives
LineLocal(line) ==
    IF line.values[1].form = "date" THEN NaiveLocal(line.values[1].day, 0)
    ELSE NaiveLocal(line.values[1].day, line.values[1].hour)

\* What the built spec holds for the line
LineParsed(line) ==
    IF line.name = "RDATE" THEN res.val.rdates
    ELSE IF line.name = "EXDATE" THEN res.val.exdates
    ELSE <<res.val.dtstart>>

\* The line's instant is its wall-clock value read in `zone`
ReadInZone(line, zone) ==
    /\ Len(LineParsed(line)) = 1
    /\ LineParsed(line)[1] + offset_from_utc(zone, LineParsed(line)[1]) = LineLocal(line)

\* C18: in a spec parse_ics_spec built, a wall-clock RDATE or EXDATE value
\* with a TZID parameter is read in that zone, and one without TZID is read
\* in the fallback zone the caller gave, wherever the line stands relative
\* to the DTSTART line and whatever TZID the DTSTART line has.
C18_DateLineZone ==
    (ParseIcsCalled /\ res.err = "Ok") =>
        \A i \in DOMAIN spec.lines :
            LET line == spec.lines[i]
            IN  (line.name \in {"RDATE", "EXDATE"} /\ IsLocalLine(line)) =>
                    /\ \A zone \in line.tzid : ReadInZone(line, zone)
                    /\ line.tzid = None =>
                          \A zone \in spec.fallback_tz : ReadInZone(line, zone)

\* The half of C18 about lines that carry a TZID, on its own
TzidParamHonoured ==
    (ParseIcsCalled /\ res.err = "Ok") =>
        \A i \in DOMAIN spec.lines :
            LET line == spec.lines[i]
            IN  (line.name \in {"RDATE", "EXDATE"} /\ IsLocalLine(line)) =>
                    \A zone \in line.tzid : ReadInZone(line, zone)

\* What the code does for a line without TZID: before the DTSTART line the
\* caller's fallback (UTC when there is none), after it the DTSTART line's
\* TZID, the fallback only when DTSTART has no TZID, UTC when neither
ZoneOfBareLine(i) ==
    IF \E k \in 1..(i - 1) : spec.lines[k].name = "DTSTART"
    THEN LET start == spec.lines[CHOOSE k \in 1..(i - 1) : spec.lines[k].name = "DTSTART"]
         IN  IF start.tzid # None THEN Unwrap(start.tzid)
             ELSE IF spec.fallback_tz # None THEN Unwrap(spec.fallback_tz)
             ELSE UtcTz
    ELSE IF spec.fallback_tz # None THEN Unwrap(spec.fallback_tz)
    ELSE UtcTz

BareLineZoneFollowsDtstart ==
    (ParseIcsCalled /\ res.err = "Ok") =>
        \A i \in DOMAIN spec.lines :
            LET line == spec.lines[i]
            IN  (line.name \in {"RDATE", "EXDATE"} /\ IsLocalLine(line)
                 /\ line.tzid = None) => ReadInZone(line, ZoneOfBareLine(i))

\* C19: a parser that reads a wall-clock value in a zone fails with
\* InvalidDateTime when no instant, or more than one, shows that value in
\* the zone, and returns the one instant otherwise: parse_iso_datetime for
\* its YYYY-MM-DD and YYYY-MM-DDTHH:MM:SS forms, parse_ics_spec for the
\* DATE and Z-less DATE-TIME values of its lines.
C19_NoSilentDstChoice ==
    /\ (call.op = "parse_iso_datetime" /\ spec.value.form \in {"date", "naive"}) =>
          LET local == IF spec.value.form = "date" THEN NaiveLocal(spec.value.day, 0)
                       ELSE NaiveLocal(spec.value.day, spec.value.hour)
              shown == {u \in UtcInstants : u + offset_from_utc(spec.tz, u) = local}
          IN  /\ Cardinality(shown) # 1 => res.err = "InvalidDateTime"
              /\ Cardinality(shown) = 1 => res.err = "Ok" /\ res.val[1] \in shown
    /\ ParseIcsCalled =>
          \A i \in DOMAIN spec.lines :
              LET line == spec.lines[i]
              IN  (IsLocalLine(line) /\ line.tzid # None
                   /\ parse_timezone(Unwrap(line.tzid)) # None) =>
                      LET shown == {u \in UtcInstants :
                                      u + offset_from_utc(Unwrap(line.tzid), u)
                                          = LineLocal(line)}
                      IN  /\ Cardinality(shown) # 1 => res.err # "Ok"
                          /\ (Cardinality(shown) # 1 /\ i = 1) =>
                                res.err = "InvalidDateTime"

C19_Witness ==
    /\ call.op = "parse_iso_datetime"
    /\ spec.value.form = "naive"
    /\ Cardinality(from_local_datetime(spec.tz, NaiveLocal(spec.value.day, spec.value.hour))) = 2
    /\ res.err = "InvalidDateTime"

\* A skipped midnight given as YYYY-MM-DD
C19_GapDateReached ==
    /\ call.op = "parse_iso_datetime"
    /\ spec.value.form = "date"
    /\ from_local_datetime(spec.tz, NaiveLocal(spec.value.day, 0)) = {}
    /\ res.err = "InvalidDateTime"

\* A calendar line whose value its TZID shows twice
C19_IcsOverlapReached ==
    /\ ParseIcsCalled
    /\ spec.lines[1].name = "RDATE"
    /\ spec.lines[1].tzid = Some(DstTz)
    /\ IsLocalLine(spec.lines[1])
    /\ Cardinality(from_local_datetime(DstTz, LineLocal(spec.lines[1]))) = 2
    /\ res.err = "InvalidDateTime"

\* How many dates the set hands over for the window of a Between query: one
\* for every RRULE and every RDATE entry that gives an instant of the window
\* which no EXRULE and no EXDATE removes
DatesInWindow ==
    Cardinality({p \in (DOMAIN spec.rrules) \X Instants :
                    /\ RuleGenerates(spec.dtstart, spec.rrules[p[1]], p[2])
                    /\ call.query.start <= p[2] /\ p[2] <= call.query.end
                    /\ ~IsRemoved(spec, p[2])})
    + Cardinality({j \in DOMAIN spec.rdates :
                      /\ call.query.start <= spec.rdates[j]
                      /\ spec.rdates[j] <= call.query.end
                      /\ ~IsRemoved(spec, spec.rdates[j])})

\* C21: on a valid spec, expand with hard_limit >= 65535 returns
\* LimitExceeded and no occurrences for Between, After (whatever its count)
\* and Unbounded queries; with 1 <= hard_limit <= 65534 LimitExceeded comes
\* only from a Between window holding more than hard_limit instants or from
\* an After count above hard_limit, never from the 16-bit conversion.  A
\* window is measured by the dates the set hands over for it.
C21_LimitCeiling ==
    (ExpandCalled /\ ValidSpec(spec)) =>
        /\ call.hard_limit >= 65535 =>
              res.err = "LimitExceeded" /\ res.val = <<>>
        /\ (call.hard_limit >= 1 /\ call.hard_limit <= 65534
            /\ res.err = "LimitExceeded") =>
              \/ /\ call.query.kind = "After"
                 /\ call.query.count > call.hard_limit
              \/ /\ call.query.kind = "Between"
                 /\ DatesInWindow > call.hard_limit

C21_Witness ==
    /\ ExpandCalled
    /\ ValidSpec(spec)
    /\ call.hard_limit = 65535
    /\ call.query.kind = "After"
    /\ call.query.count = 1
    /\ RecurrenceSet(spec) # {}
    /\ res.err = "LimitExceeded"

\* The largest hard_limit the conversion lets through
C21_BelowCeilingReached ==
    /\ ExpandOk
    /\ call.hard_limit = 65534
    /\ call.query.kind = "Unbounded"
    /\ Len(res.val) >= 2

\* C22: for a valid spec and an instant `at`, explain reports included
\* exactly when `at` is in the recurrence set: generated by some RRULE or
\* RDATE and matched by no EXRULE and no EXDATE.
C22_ExplainMembership ==
    (ExplainOk /\ ValidSpec(spec)) =>
        (res.val.included <=> call.at \in RecurrenceSet(spec))

====
